---- MODULE Spec2Model ----
(***************************************************************************)
(* Message box builders of tedge_actors (crates/core/tedge_actors/src/     *)
(* builders.rs): the server message box builder with its keyed request     *)
(* senders and its response registry, the sequential and the concurrent    *)
(* server boxes built from it, and the single-peer message box builder.    *)
(***************************************************************************)
EXTENDS Integers, Sequences, FiniteSets, TLC

\* ------------------------------------------------------------------ bounds

\* Consumers that may connect to the server box builder: 1..NConsumers.
NConsumers == 2
\* Requests each consumer submits at most.
MaxReq == 2
\* Largest argument given to with_max_concurrency.
MaxConc == 2
\* Capacity given to ServerMessageBoxBuilder::new.
Capacity == 2

Consumers == 1..NConsumers

\* Call frames a build may stack before it is cut off.
MaxDepth == 3

\* Largest capacity a simple builder is created with where the capacity varies.
MaxBoxCapacity == 2

\* SimpleMessageBoxBuilders that are wired together: 1..NBoxes.
NBoxes == 3
\* Wiring calls made on the simple builders, all together.
MaxWire == 2
\* Messages the built simple boxes send, all together.
MaxSend == 2
\* Capacity given to SimpleMessageBoxBuilder::new.
BoxCapacity == 1
\* Sends made in all by the producers of one box.
MaxCloneSend == 3
\* Producers holding a clone of the input sender of one box.
NProducers == 2

Boxes == 1..NBoxes

\* The messages a simple box sends: strings.
Msgs == {"", "xy", "z"}

\* ------------------------------------------------------------------ senders

\* A DynSender is a record: kind "null" (NullSender), "chan" (a clone of the
\* mpsc sender of peer `to`), "keyed" (KeyedSender with ClientId `key` over the
\* shared request queue), "map" (MappingSender over the input of `to`) or
\* "adapt" (the converting sender of crate::adapt over the input of `to`).
NullSender == [kind |-> "null", to |-> 0, key |-> 0]

ChanSender(c) == [kind |-> "chan", to |-> c, key |-> 0]

KeyedSender(client_id) == [kind |-> "keyed", to |-> 0, key |-> client_id]

\* MappingSender::new(inner, cast), cast being str.chars().
MappingSender(inner) == [kind |-> "map", to |-> inner.to, key |-> 0]

\* crate::adapt(&sender): a sender of N over a sender of M, M: From<N>.
adapt(inner) == [kind |-> "adapt", to |-> inner.to, key |-> 0]

\* M::from(n) where the source and the sink have the same message type
\* (impl<T> From<T> for T).
into(n) == n

Max(a, b) == IF a >= b THEN a ELSE b

\* ------------------------------------------------------------------ state

VARIABLES
    phase,            \* "builder" | "sequential" | "concurrent": the builder, or what it was built into
    max_concurrency,  \* ServerMessageBoxBuilder.max_concurrency
    clients,          \* ServerMessageBoxBuilder.clients: Vec<DynSender<Response>>
    request_queue,    \* the channel request_sender -> input_receiver: Seq of <<ClientId, Request>>
    request_sender,   \* per consumer: the sender connect_consumer returned to it
    box,              \* the built box: [max_concurrency, senders]
    running,          \* requests accepted by the handler and awaiting their response
    responses,        \* per consumer: what its response sender received, in order
    submitted,        \* per consumer: number of requests it has sent
    supplied,         \* history: the consumer of each connect_consumer call, in call order
    assigned,         \* history: the ClientId each connect_consumer call assigned, in call order
    emitted,          \* history: each response the box sent, with its ClientId and its receiver
    last_arg,         \* history: {} or {n}, the argument of the last with_max_concurrency call
    dequeued,         \* history: the pairs taken from the request queue, in the order taken
    output_sender,    \* per simple builder: SimpleMessageBoxBuilder.output_sender
    built,            \* per simple builder: whether build() has consumed it
    dropped,          \* per simple box: whether the built box (its receiver) is gone
    inbox,            \* per simple box: every message put on its input channel, in order,
                      \* with its origin (from, via) and the consumer it answers (for)
    received,         \* per simple box: how many of them it has received
    pending,          \* per simple box: what its send in progress has still to deliver
    sent,             \* history: per simple box, the messages it was asked to send
    send_errors,      \* per simple box: how many of its sends returned an error
    registered,       \* history: per simple builder, the senders given to its wiring calls
    connected,        \* history: per simple builder, the consumers of its connect_consumer calls
    answering,        \* per simple box: the sender of the message it received last (0: none)
    wirings,          \* number of wiring calls made on the simple builders so far
    calls,            \* history: the calls the last add_peer made, in the order made
    input_capacity,   \* per simple builder: the capacity of its input channel
    stage,            \* "config" | "wiring" | "building" | "running": where the server actor stands
    server_config,    \* the ServerConfig: [capacity, max_concurrency]
    set_fields,       \* history: the fields of the ServerConfig a setter was called for
    actor,            \* the ServerActorBuilder: [kind, server, box_builder]
    bare,             \* a ServerMessageBoxBuilder given the same calls directly
    returned,         \* history: what each connect_consumer call returned, on either builder
    signal_senders,   \* history: what the last get_signal_sender call returned, on either builder
    build_kind,       \* the Builder implementation being built ("none": none yet)
    build_run,        \* per entry point (try_build, build): its call frames and the value returned
    actor_run,        \* the call of ServerActorBuilder::run: the actor it made, what it returned
    signal_capacity,  \* per simple builder: the capacity of its signal channel
    signal_queue,     \* first simple box: the runtime requests on its signal channel
    data_queue,       \* first simple box: the messages on its input channel, not yet received
    loop_last,        \* first simple box: what its receive loop received last
    signals_seen,     \* first simple box: parity of the number of signals its loop received
    signal_parked,    \* first simple box: the holders of a signal sender whose send is suspended
    data_parked       \* first simple box: the producers whose send is suspended, eldest first

server_vars == <<phase, max_concurrency, clients, request_queue, request_sender, box,
                 running, responses, submitted, supplied, assigned, emitted, last_arg,
                 dequeued>>

simple_vars == <<output_sender, built, dropped, inbox, received, pending, sent,
                 send_errors, registered, connected, answering, wirings, calls,
                 input_capacity>>

actor_vars == <<stage, server_config, set_fields, actor, bare, returned, signal_senders,
                build_kind, build_run, actor_run>>

signal_vars == <<signal_capacity, signal_queue, data_queue, loop_last, signals_seen,
                 signal_parked, data_parked>>

ext_vars == <<actor_vars, signal_vars>>

vars == <<server_vars, simple_vars, ext_vars>>

\* ------------------------------------------------------------------ ServerMessageBoxBuilder

\* Faulty variant: the argument is stored as given, without the clamp.
with_max_concurrency_unclamped(n) == n

\* with_max_concurrency stores max(1, n).
with_max_concurrency(n) == Max(1, n)

\* Faulty variant: the ClientId is taken after the push (one too many).
connect_consumer_id_after_push(cls, response_sender) ==
    LET client_id == Len(cls) + 1
    IN  [request_sender |-> KeyedSender(client_id),
         clients |-> Append(cls, response_sender)]

\* Faulty variant: the response sender is inserted first instead of pushed last.
connect_consumer_push_front(cls, response_sender) ==
    LET client_id == Len(cls)
    IN  [request_sender |-> KeyedSender(client_id),
         clients |-> <<response_sender>> \o cls]

\* Faulty variant: every consumer is given the ClientId of the first one.
connect_consumer_same_id(cls, response_sender) ==
    [request_sender |-> KeyedSender(0),
     clients |-> Append(cls, response_sender)]

\* connect_consumer: the ClientId is the registry's length at call time; the
\* returned sender is keyed with it; the response sender is pushed last.
connect_consumer(cls, response_sender) ==
    LET client_id == Len(cls)
    IN  [request_sender |-> KeyedSender(client_id),
         clients |-> Append(cls, response_sender)]

\* SenderVec::new_sender(clients): the registry becomes the fan-out table.
build_service(cls) == cls

\* Faulty variant: the box is given one slot more than the builder holds.
build_concurrent_extra_slot(mc, cls) ==
    [max_concurrency |-> mc + 1, senders |-> build_service(cls)]

\* ConcurrentServerMessageBox::new(max_concurrency, build_service()).
build_concurrent(mc, cls) == [max_concurrency |-> mc, senders |-> build_service(cls)]

\* ------------------------------------------------------------------ SimpleMessageBoxBuilder

\* mpsc::channel(4): the capacity of every signal channel.
SignalCapacity == 4

\* Faulty variant: the output route starts as a clone of the box's own input sender.
SimpleMessageBoxBuilder_new_loopback(b, capacity) ==
    [output_sender |-> ChanSender(b), input_capacity |-> capacity,
     signal_capacity |-> SignalCapacity]

\* Faulty variant: the two channels are given each other's capacity.
SimpleMessageBoxBuilder_new_swapped(b, capacity) ==
    [output_sender |-> NullSender, input_capacity |-> SignalCapacity,
     signal_capacity |-> capacity]

\* SimpleMessageBoxBuilder::new(name, capacity): an input channel of the given
\* capacity, a signal channel of capacity 4, the NullSender as output route.
SimpleMessageBoxBuilder_new(b, capacity) ==
    [output_sender |-> NullSender, input_capacity |-> capacity,
     signal_capacity |-> SignalCapacity]

\* MessageSink::get_sender and ServiceConsumer::get_response_sender: clones of input_sender.
get_sender(b) == ChanSender(b)

\* Faulty variant: the sender of a channel of its own, which the box never reads.
get_response_sender_own_channel(b) == NullSender

\* ServiceConsumer::get_response_sender: self.input_sender.sender_clone().
get_response_sender(b) == ChanSender(b)

\* Faulty variant: a route already set is kept, only the first registration counts.
register_peer_first_wins(output, sender) ==
    IF output = NullSender THEN sender ELSE output

\* MessageSource::register_peer: self.output_sender = sender.
register_peer(output, sender) == sender

\* ServiceConsumer::set_request_sender: self.output_sender = request_sender.
set_request_sender(output, sender) == sender

\* ServiceProvider::connect_consumer of the simple builder b: the output route is
\* overwritten with the response sender, a clone of the input sender is returned.
simple_connect_consumer(b, output, response_sender) ==
    [output_sender |-> response_sender, request_sender |-> ChanSender(b)]

\* RuntimeRequest: what the runtime sends on a signal channel.
RuntimeRequests == {"Shutdown"}

\* Faulty variant: a clone of the input sender is returned.
SimpleMessageBoxBuilder_get_signal_sender_input(b) == [channel |-> "input", of |-> b]

\* RuntimeRequestSink::get_signal_sender: a clone of signal_sender.
SimpleMessageBoxBuilder_get_signal_sender(b) == [channel |-> "signal", of |-> b]

\* Faulty variant: the loop looks at the input channel first.
recv_choice_data_first(signals, data) ==
    IF data # <<>> THEN "data" ELSE IF signals # <<>> THEN "signal" ELSE "wait"

\* The receive loop of a box: a pending runtime request is taken before any
\* message; with both channels empty the loop waits.
recv_choice(signals, data) ==
    IF signals # <<>> THEN "signal" ELSE IF data # <<>> THEN "data" ELSE "wait"

\* MessageSink::get_config and ServiceConsumer::get_config: NoConfig.
get_config(b) == "NoConfig"

\* Faulty variant: the sender registered on the source is the source's own.
add_input_registers_source(sink, source) == adapt(get_sender(source))

\* MessageSink::add_input: the sender given to source.register_peer.
add_input(sink, source) == adapt(get_sender(sink))

\* Faulty variant: the sender registered on the source is the source's own.
add_sink_registers_source(source, peer) == get_sender(source)

\* MessageSource::add_sink: the sender given to self.register_peer.
add_sink(source, peer) == get_sender(peer)

\* One call of the connection protocol, as add_peer makes it.
Call(name, on, arg, ret) == [call |-> name, on |-> on, arg |-> arg, ret |-> ret]

\* Faulty variant: the consumer is handed back its own response sender, before
\* the provider is asked to connect it.
add_peer_hands_back_response_sender(provider, peer, outputs) ==
    LET config == get_config(peer)
        response_sender == get_response_sender(peer)
        r == simple_connect_consumer(provider, outputs[provider], response_sender)
    IN  [output_sender |-> [[outputs EXCEPT ![peer] = set_request_sender(@, response_sender)]
                               EXCEPT ![provider] = r.output_sender],
         calls |-> << Call("get_config", peer, NullSender, NullSender),
                      Call("get_response_sender", peer, NullSender, response_sender),
                      Call("set_request_sender", peer, response_sender, NullSender),
                      Call("connect_consumer", provider, response_sender, r.request_sender) >>]

\* ServiceProvider::add_peer on the simple builder `provider`: get_config and
\* get_response_sender on the peer, connect_consumer on the provider,
\* set_request_sender on the peer with the sender connect_consumer returned.
add_peer(provider, peer, outputs) ==
    LET config == get_config(peer)
        response_sender == get_response_sender(peer)
        r == simple_connect_consumer(provider, outputs[provider], response_sender)
        request_sender_ == r.request_sender
    IN  [output_sender |-> [[outputs EXCEPT ![provider] = r.output_sender]
                               EXCEPT ![peer] = set_request_sender(@, request_sender_)],
         calls |-> << Call("get_config", peer, NullSender, NullSender),
                      Call("get_response_sender", peer, NullSender, response_sender),
                      Call("connect_consumer", provider, response_sender, request_sender_),
                      Call("set_request_sender", peer, request_sender_, NullSender) >>]

\* ServiceConsumer::set_connection: service.add_peer(self).
set_connection(consumer, service, outputs) == add_peer(service, consumer, outputs)

\* ServiceConsumer::with_connection: service.add_peer(&mut self).
with_connection(consumer, service, outputs) == add_peer(service, consumer, outputs)

\* Faulty variant: the sink's plain sender is registered, the mapper is forgotten.
add_mapped_input_unmapped(sink) == get_sender(sink)

\* MessageSink::add_mapped_input: the sender given to source.register_peer.
add_mapped_input(sink) == MappingSender(get_sender(sink))

\* The mapper of add_mapped_input's documentation: str.chars().
chars(str) ==
    CASE str = "" -> <<>>
      [] str = "xy" -> <<"x", "y">>
      [] str = "z" -> <<"z">>

\* ------------------------------------------------------------------ ServerConfig, ServerActorBuilder

\* ServerConfig::new() and Default: capacity 16, max_concurrency 4.
ServerConfig_new == [capacity |-> 16, max_concurrency |-> 4]

\* ServerConfig::with_capacity: Self { capacity, ..self }.
ServerConfig_with_capacity(cfg, capacity) == [cfg EXCEPT !.capacity = capacity]

\* ServerConfig::with_max_concurrency: Self { max_concurrency, ..self }, unclamped.
ServerConfig_with_max_concurrency(cfg, n) == [cfg EXCEPT !.max_concurrency = n]

\* ServerMessageBoxBuilder::new(service_name, capacity): a request queue of that
\* capacity, a signal queue of capacity 4, max_concurrency 1, no client.
ServerMessageBoxBuilder_new(service_name, capacity) ==
    [service_name |-> service_name,
     max_concurrency |-> 1,
     request_queue |-> [of |-> service_name, capacity |-> capacity],
     signal_queue |-> [of |-> service_name, capacity |-> SignalCapacity],
     clients |-> <<>>]

\* ServerMessageBoxBuilder::connect_consumer on the builder as a whole: the
\* registry grows, the returned sender is keyed and feeds the builder's queue.
ServerMessageBoxBuilder_connect_consumer(builder, response_sender) ==
    LET r == connect_consumer(builder.clients, response_sender)
    IN  [builder |-> [builder EXCEPT !.clients = r.clients],
         request_sender |-> [sender |-> r.request_sender, queue |-> builder.request_queue]]

\* RuntimeRequestSink::get_signal_sender for ServerMessageBoxBuilder: a clone of signal_sender.
ServerMessageBoxBuilder_get_signal_sender(builder) == [queue |-> builder.signal_queue]

\* Faulty variant: the two fields of the config are taken for each other.
ServerActorBuilder_new_swapped(server, cfg, kind) ==
    [kind |-> kind,
     server |-> server,
     box_builder |-> [ServerMessageBoxBuilder_new(server, cfg.max_concurrency)
                         EXCEPT !.max_concurrency = with_max_concurrency(cfg.capacity)]]

\* ServerActorBuilder::new(server, config, kind): the box builder is
\* ServerMessageBoxBuilder::new(name, config.capacity)
\*     .with_max_concurrency(config.max_concurrency).
ServerActorBuilder_new(server, cfg, kind) ==
    [kind |-> kind,
     server |-> server,
     box_builder |-> [ServerMessageBoxBuilder_new(server, cfg.capacity)
                         EXCEPT !.max_concurrency = with_max_concurrency(cfg.max_concurrency)]]

\* Faulty variant: the call is made on a copy of the box builder, which is lost.
ServerActorBuilder_connect_consumer_on_copy(builder, response_sender) ==
    [builder |-> builder,
     request_sender |->
        ServerMessageBoxBuilder_connect_consumer(builder.box_builder, response_sender).request_sender]

\* ServiceProvider::connect_consumer for ServerActorBuilder:
\* self.box_builder.connect_consumer(config, response_sender).
ServerActorBuilder_connect_consumer(builder, response_sender) ==
    LET r == ServerMessageBoxBuilder_connect_consumer(builder.box_builder, response_sender)
    IN  [builder |-> [builder EXCEPT !.box_builder = r.builder],
         request_sender |-> r.request_sender]

\* RuntimeRequestSink::get_signal_sender for ServerActorBuilder:
\* self.box_builder.get_signal_sender().
ServerActorBuilder_get_signal_sender(builder) ==
    ServerMessageBoxBuilder_get_signal_sender(builder.box_builder)

\* No ServerActorBuilder, no ServerMessageBoxBuilder yet.
NoBoxBuilder ==
    [service_name |-> "", max_concurrency |-> 0,
     request_queue |-> [of |-> "", capacity |-> 0],
     signal_queue |-> [of |-> "", capacity |-> 0],
     clients |-> <<>>]

NoActor == [kind |-> "none", server |-> "", box_builder |-> NoBoxBuilder]

\* ------------------------------------------------------------------ Builder

\* The two methods of the Builder trait.
Entries == {"try_build", "build"}

\* The implementations of Builder in the module, named by what they build.
Builders == {"SimpleMessageBox", "ServerMessageBox", "ConcurrentServerMessageBox",
             "ServerActor", "ConcurrentServerActor"}

\* What a call has returned so far: nothing, a value, or a Result.
NoValue == [tag |-> "none", value |-> [none |-> TRUE]]

Value(v) == [tag |-> "value", value |-> v]

Ok(v) == [tag |-> "Ok", value |-> v]

NotCalled == [frames |-> <<>>, ret |-> NoValue]

\* try_build in every implementation: Ok(self.build()), Error = Infallible.
try_build_body(builder) == "Ok(self.build())"

\* Faulty variant: an implementation leaves build to the trait's default,
\* self.try_build().unwrap().
build_body_default(builder) == "self.try_build().unwrap()"

\* build in every implementation: its own, overriding the trait's default.
build_body(builder) == "own"

\* SimpleMessageBox::new(input_receiver, LoggingSender::new(name, output_sender))
SimpleMessageBoxBuilder_build(b, output) == [input_receiver |-> b, sender |-> output]

\* Builder<ServerMessageBox>::build: self.build_service()
ServerMessageBoxBuilder_build(builder) ==
    [input_receiver |-> builder.request_queue, sender |-> build_service(builder.clients)]

\* Builder<ConcurrentServerMessageBox>::build: self.build_concurrent()
ServerMessageBoxBuilder_build_concurrent(builder) ==
    [max_concurrency |-> build_concurrent(builder.max_concurrency, builder.clients).max_concurrency,
     clients |-> ServerMessageBoxBuilder_build(builder)]

\* Builder<ServerActor>::build: ServerActor::new(self.server, self.box_builder.build())
ServerActorBuilder_build(builder) ==
    [server |-> builder.server, messages |-> ServerMessageBoxBuilder_build(builder.box_builder)]

\* Builder<ConcurrentServerActor>::build
ServerActorBuilder_build_concurrent(builder) ==
    [server |-> builder.server,
     messages |-> ServerMessageBoxBuilder_build_concurrent(builder.box_builder)]

\* ServerActorBuilder<S, Sequential>::run, up to actor.run().await:
\* ServerActor::new(self.server, self.box_builder.build())
ServerActorBuilder_run(builder) ==
    [server |-> builder.server, messages |-> ServerMessageBoxBuilder_build(builder.box_builder)]

\* ServerActorBuilder<S, Concurrent>::run, up to actor.run().await:
\* ConcurrentServerActor::new(self.server, self.box_builder.build())
ServerActorBuilder_run_concurrent(builder) ==
    [server |-> builder.server,
     messages |-> ServerMessageBoxBuilder_build_concurrent(builder.box_builder)]

\* What actor.run().await gives: Result<(), RuntimeError>.
RunResults == {"Ok(())", "Err(RuntimeError)"}

\* run has not been called.
NotRun == [actor |-> [server |-> "", messages |-> <<>>], ret |-> NoValue]

\* One step of a call of try_build or build on `builder`, whose own build
\* yields `product`: the frame on top either calls the next method or returns.
BuildStep(builder, product, run) ==
    LET top == run.frames[Len(run.frames)]
        below == SubSeq(run.frames, 1, Len(run.frames) - 1)
    IN  CASE top = "try_build" /\ run.ret.tag = "none" ->
                [run EXCEPT !.frames = Append(@, "build")]
          [] top = "try_build" /\ run.ret.tag = "value" ->
                [frames |-> below, ret |-> Ok(run.ret.value)]
          [] top = "build" /\ build_body(builder) = "own" ->
                [frames |-> below, ret |-> Value(product)]
          [] top = "build" /\ build_body(builder) # "own" /\ run.ret.tag = "none" ->
                [run EXCEPT !.frames = Append(@, "try_build")]
          [] top = "build" /\ build_body(builder) # "own" /\ run.ret.tag = "Ok" ->
                [frames |-> below, ret |-> Value(run.ret.value)]
          [] OTHER -> [frames |-> <<>>, ret |-> [tag |-> "panic", value |-> [none |-> TRUE]]]

\* ------------------------------------------------------------------ senders at work

\* What a send of m through `sender` has to put on the receiver's channel:
\* nothing for the NullSender, m for a channel sender, m converted for an
\* adapted sender, cast(m) in the mapper's order for a MappingSender.
SendItems(sender, m) ==
    CASE sender.kind = "null" -> <<>>
      [] sender.kind = "chan" -> <<m>>
      [] sender.kind = "adapt" -> <<into(m)>>
      [] sender.kind = "map" -> chars(m)

\* The channel made by mpsc::channel(buffer), each sender having a slot of its
\* own beyond the buffer: a sender that is not parked puts its item on the queue
\* at once, and is parked when the queue held `buffer` items or more already;
\* its send is over once it is parked no more.
channel_send(queue, parked, buffer, holder, item) ==
    [queue |-> Append(queue, item),
     parked |-> IF Len(queue) >= buffer THEN Append(parked, holder) ELSE parked]

\* The receiver takes the item at the head, and wakes the sender parked longest.
channel_recv(queue, parked) ==
    [item |-> Head(queue),
     queue |-> Tail(queue),
     parked |-> IF parked = <<>> THEN <<>> ELSE Tail(parked)]

\* Whether the sender held by `holder` is parked.
is_parked(parked, holder) == \E i \in DOMAIN parked : parked[i] = holder

\* KeyedSender::send(q): the pair (key, q) goes to the shared request queue.
KeyedSend(sender, queue, q) == Append(queue, <<sender.key, q>>)

\* The response the handler gives to request q.
Handle(q) == [answer_to |-> q]

\* SenderVec::send((k, r)): r goes to the k-th registered sender and to no other;
\* 0 stands for no receiver (no sender is registered under k).
SenderVecTarget(senders, k) ==
    IF k + 1 \in DOMAIN senders THEN senders[k + 1].to ELSE 0

SenderVecSend(senders, resp, k, r) ==
    IF SenderVecTarget(senders, k) = 0
    THEN resp
    ELSE [resp EXCEPT ![SenderVecTarget(senders, k)] = Append(@, r)]

RECURSIVE SumUpTo(_, _)
SumUpTo(f, n) == IF n = 0 THEN 0 ELSE f[n] + SumUpTo(f, n - 1)

RECURSIVE SumLen(_, _)
SumLen(f, n) == IF n = 0 THEN 0 ELSE Len(f[n]) + SumLen(f, n - 1)

\* ------------------------------------------------------------------ initial state

\* ServerMessageBoxBuilder::new(name, Capacity): max_concurrency 1, no client,
\* an empty request queue. SimpleMessageBoxBuilder::new(name, BoxCapacity) for
\* each simple builder: an empty input channel and an empty signal channel of
\* the capacities of new(), the output route of new().
InitWith(capacity) ==
    /\ phase = "builder"
    /\ max_concurrency = 1
    /\ clients = <<>>
    /\ request_queue = <<>>
    /\ request_sender = [c \in Consumers |-> NullSender]
    /\ box = [max_concurrency |-> 0, senders |-> <<>>]
    /\ running = {}
    /\ responses = [c \in Consumers |-> <<>>]
    /\ submitted = [c \in Consumers |-> 0]
    /\ supplied = <<>>
    /\ assigned = <<>>
    /\ emitted = {}
    /\ last_arg = {}
    /\ dequeued = <<>>
    /\ output_sender = [b \in Boxes |-> SimpleMessageBoxBuilder_new(b, capacity).output_sender]
    /\ input_capacity = [b \in Boxes |-> SimpleMessageBoxBuilder_new(b, capacity).input_capacity]
    /\ signal_capacity = [b \in Boxes |-> SimpleMessageBoxBuilder_new(b, capacity).signal_capacity]
    /\ signal_queue = <<>>
    /\ data_queue = <<>>
    /\ loop_last = "none"
    /\ signals_seen = 0
    /\ signal_parked = <<>>
    /\ data_parked = <<>>
    /\ built = [b \in Boxes |-> FALSE]
    /\ dropped = [b \in Boxes |-> FALSE]
    /\ inbox = [b \in Boxes |-> <<>>]
    /\ received = [b \in Boxes |-> 0]
    /\ pending = [b \in Boxes |-> <<>>]
    /\ sent = [b \in Boxes |-> <<>>]
    /\ send_errors = [b \in Boxes |-> 0]
    /\ registered = [b \in Boxes |-> <<>>]
    /\ connected = [b \in Boxes |-> {}]
    /\ answering = [b \in Boxes |-> 0]
    /\ wirings = 0
    /\ calls = <<>>
    /\ stage = "config"
    /\ server_config = ServerConfig_new
    /\ set_fields = {}
    /\ actor = NoActor
    /\ bare = NoBoxBuilder
    /\ returned = <<>>
    /\ signal_senders = <<>>
    /\ build_kind = "none"
    /\ build_run = [e \in Entries |-> NotCalled]
    /\ actor_run = NotRun

\* Every simple builder is created with capacity BoxCapacity.
Init == InitWith(BoxCapacity)

\* ------------------------------------------------------------------ wiring

\* builder.with_max_concurrency(n)
WithMaxConcurrency(n) ==
    /\ phase = "builder"
    /\ max_concurrency' = with_max_concurrency(n)
    /\ last_arg' = {n}
    /\ UNCHANGED <<phase, clients, request_queue, request_sender, box, running,
                   responses, submitted, supplied, assigned, emitted>>
    /\ UNCHANGED <<dequeued, simple_vars, ext_vars>>

\* builder.connect_consumer(NoConfig, response sender of consumer c), once per consumer.
ConnectConsumer(c) ==
    /\ phase = "builder"
    /\ \A i \in 1..Len(supplied) : supplied[i] # c
    /\ LET r == connect_consumer(clients, ChanSender(c))
       IN  /\ clients' = r.clients
           /\ request_sender' = [request_sender EXCEPT ![c] = r.request_sender]
           /\ assigned' = Append(assigned, r.request_sender.key)
    /\ supplied' = Append(supplied, c)
    /\ UNCHANGED <<phase, max_concurrency, request_queue, box, running, responses,
                   submitted, emitted, last_arg>>
    /\ UNCHANGED <<dequeued, simple_vars, ext_vars>>

\* Builder<ServerMessageBox>::build: the sequential box.
BuildSequential ==
    /\ phase = "builder"
    /\ phase' = "sequential"
    /\ box' = [box EXCEPT !.senders = build_service(clients)]
    /\ UNCHANGED <<max_concurrency, clients, request_queue, request_sender, running,
                   responses, submitted, supplied, assigned, emitted, last_arg>>
    /\ UNCHANGED <<dequeued, simple_vars, ext_vars>>

\* Builder<ConcurrentServerMessageBox>::build: the bounded-concurrency box.
BuildConcurrent ==
    /\ phase = "builder"
    /\ phase' = "concurrent"
    /\ box' = build_concurrent(max_concurrency, clients)
    /\ UNCHANGED <<max_concurrency, clients, request_queue, request_sender, running,
                   responses, submitted, supplied, assigned, emitted, last_arg>>
    /\ UNCHANGED <<dequeued, simple_vars, ext_vars>>

\* ------------------------------------------------------------------ running

\* Whether the request sender of consumer c is parked on the shared queue: the
\* parked senders are those of the requests the queue holds beyond its
\* capacity, each sender having put one there.
RequestSenderParked(c) ==
    \E i \in DOMAIN request_queue :
        i > Capacity /\ request_queue[i][2].by = c

\* Consumer c sends its next request through the sender connect_consumer gave
\* it, once that sender is not parked: the request goes on the shared queue,
\* and the send stays suspended while the queue holds it beyond its capacity.
Submit(c) ==
    /\ request_sender[c].kind = "keyed"
    /\ submitted[c] < MaxReq
    /\ ~RequestSenderParked(c)
    /\ request_queue' = KeyedSend(request_sender[c], request_queue,
                                  [by |-> c, n |-> submitted[c] + 1])
    /\ submitted' = [submitted EXCEPT ![c] = @ + 1]
    /\ UNCHANGED <<phase, max_concurrency, clients, request_sender, box, running,
                   responses, supplied, assigned, emitted, last_arg>>
    /\ UNCHANGED <<dequeued, simple_vars, ext_vars>>

\* The box sends (k, Handle(q)) for the accepted request <<k, q>>.
Respond(req) ==
    /\ req \in running
    /\ running' = running \ {req}
    /\ responses' = SenderVecSend(box.senders, responses, req[1], Handle(req[2]))
    /\ emitted' = emitted \cup {[id |-> req[1], res |-> Handle(req[2]),
                                 to |-> SenderVecTarget(box.senders, req[1])]}
    /\ UNCHANGED <<phase, max_concurrency, clients, request_queue, request_sender, box,
                   submitted, supplied, assigned, last_arg>>
    /\ UNCHANGED <<dequeued, simple_vars, ext_vars>>

\* Sequential server actor: receives the next request once the previous one is answered.
SeqRecv ==
    /\ phase = "sequential"
    /\ running = {}
    /\ request_queue # <<>>
    /\ running' = {Head(request_queue)}
    /\ request_queue' = Tail(request_queue)
    /\ UNCHANGED <<phase, max_concurrency, clients, request_sender, box, responses,
                   submitted, supplied, assigned, emitted, last_arg>>
    /\ dequeued' = Append(dequeued, Head(request_queue))
    /\ UNCHANGED <<simple_vars, ext_vars>>

SeqRespond ==
    /\ phase = "sequential"
    /\ \E req \in running : Respond(req)

\* Concurrent server box: a request is accepted only while fewer than
\* max_concurrency are awaiting their response.
ConcAccept ==
    /\ phase = "concurrent"
    /\ Cardinality(running) < box.max_concurrency
    /\ request_queue # <<>>
    /\ running' = running \cup {Head(request_queue)}
    /\ request_queue' = Tail(request_queue)
    /\ UNCHANGED <<phase, max_concurrency, clients, request_sender, box, responses,
                   submitted, supplied, assigned, emitted, last_arg>>
    /\ dequeued' = Append(dequeued, Head(request_queue))
    /\ UNCHANGED <<simple_vars, ext_vars>>

\* Any of the accepted requests may complete next.
ConcComplete ==
    /\ phase = "concurrent"
    /\ \E req \in running : Respond(req)

Next ==
    \/ \E n \in 0..MaxConc : WithMaxConcurrency(n)
    \/ \E c \in Consumers : ConnectConsumer(c)
    \/ BuildSequential
    \/ BuildConcurrent
    \/ \E c \in Consumers : Submit(c)
    \/ SeqRecv
    \/ SeqRespond
    \/ ConcAccept
    \/ ConcComplete

Spec == Init /\ [][Next]_vars

\* ------------------------------------------------------------------ simple boxes: wiring

SimpleSenders == {ChanSender(b) : b \in Boxes} \cup {MappingSender(ChanSender(b)) : b \in Boxes}

\* source.register_peer(config, sender)
RegisterPeer(source, sender) ==
    /\ ~built[source]
    /\ wirings < MaxWire
    /\ wirings' = wirings + 1
    /\ output_sender' = [output_sender EXCEPT ![source] = register_peer(@, sender)]
    /\ registered' = [registered EXCEPT ![source] = Append(@, sender)]
    /\ UNCHANGED <<built, dropped, inbox, received, pending, sent, send_errors,
                   connected, answering>>
    /\ UNCHANGED <<calls, input_capacity, server_vars, ext_vars>>

\* provider.connect_consumer(config, consumer.get_response_sender())
SimpleConnectConsumer(provider, consumer) ==
    /\ ~built[provider]
    /\ wirings < MaxWire
    /\ wirings' = wirings + 1
    /\ LET r == simple_connect_consumer(provider, output_sender[provider],
                                        get_response_sender(consumer))
       IN  output_sender' = [output_sender EXCEPT ![provider] = r.output_sender]
    /\ registered' = [registered EXCEPT ![provider] = Append(@, get_response_sender(consumer))]
    /\ connected' = [connected EXCEPT ![provider] = @ \cup {consumer}]
    /\ UNCHANGED <<built, dropped, inbox, received, pending, sent, send_errors, answering>>
    /\ UNCHANGED <<calls, input_capacity, server_vars, ext_vars>>

\* consumer.set_request_sender(sender)
SetRequestSender(consumer, sender) ==
    /\ ~built[consumer]
    /\ wirings < MaxWire
    /\ wirings' = wirings + 1
    /\ output_sender' = [output_sender EXCEPT ![consumer] = set_request_sender(@, sender)]
    /\ registered' = [registered EXCEPT ![consumer] = Append(@, sender)]
    /\ UNCHANGED <<built, dropped, inbox, received, pending, sent, send_errors,
                   connected, answering>>
    /\ UNCHANGED <<calls, input_capacity, server_vars, ext_vars>>

\* sink.add_mapped_input(source, str.chars()): source.register_peer(config, MappingSender)
AddMappedInput(sink, source) ==
    /\ sink # source
    /\ ~built[sink]
    /\ RegisterPeer(source, add_mapped_input(sink))

\* The senders the calls of `trace` gave to builder b, in call order.
RegisteredBy(trace, b) ==
    LET OnB(c) == c.on = b /\ c.call \in {"connect_consumer", "set_request_sender"}
        made == SelectSeq(trace, OnB)
    IN  [i \in 1..Len(made) |-> made[i].arg]

\* The consumers the connect_consumer calls of `trace` connected to builder b.
ConnectedBy(trace, b) ==
    {trace[i].arg.to : i \in {n \in DOMAIN trace : /\ trace[n].on = b
                                                  /\ trace[n].call = "connect_consumer"}}

\* One wiring call linking a provider and a consumer, r being what it did.
Connect(provider, consumer, r) ==
    /\ provider # consumer
    /\ ~built[provider]
    /\ ~built[consumer]
    /\ wirings < MaxWire
    /\ wirings' = wirings + 1
    /\ output_sender' = r.output_sender
    /\ calls' = r.calls
    /\ registered' = [b \in Boxes |-> registered[b] \o RegisteredBy(r.calls, b)]
    /\ connected' = [b \in Boxes |-> connected[b] \cup ConnectedBy(r.calls, b)]
    /\ UNCHANGED <<built, dropped, inbox, received, pending, sent, send_errors, answering,
                   input_capacity>>
    /\ UNCHANGED <<server_vars, ext_vars>>

\* provider.add_peer(consumer)
AddPeer(provider, consumer) ==
    Connect(provider, consumer, add_peer(provider, consumer, output_sender))

\* consumer.set_connection(service)
SetConnection(consumer, service) ==
    Connect(service, consumer, set_connection(consumer, service, output_sender))

\* consumer.with_connection(service)
WithConnection(consumer, service) ==
    Connect(service, consumer, with_connection(consumer, service, output_sender))

\* sink.add_input(source): source.register_peer(config, adapted sender of the sink)
AddInput(sink, source) ==
    /\ sink # source
    /\ ~built[sink]
    /\ RegisterPeer(source, add_input(sink, source))

\* source.add_sink(peer): source.register_peer(config, sender of the peer)
AddSink(source, peer) ==
    /\ source # peer
    /\ ~built[peer]
    /\ RegisterPeer(source, add_sink(source, peer))

\* builder.build(): the box takes the input receiver and the output sender.
Build(b) ==
    /\ ~built[b]
    /\ built' = [built EXCEPT ![b] = TRUE]
    /\ UNCHANGED <<output_sender, dropped, inbox, received, pending, sent, send_errors,
                   registered, connected, answering, wirings>>
    /\ UNCHANGED <<calls, input_capacity, server_vars, ext_vars>>

\* ------------------------------------------------------------------ simple boxes: running

Sends == SumLen(sent, NBoxes)

\* Messages on b's input channel and not yet received.
Queued(b) == Len(inbox[b]) - received[b]

\* Whether the sender box b holds is parked on the channel it feeds: the
\* parked senders of a channel are those of the items it holds beyond its
\* capacity, each sender having put one there; none is when the receiver is gone.
Parked(b) ==
    IF output_sender[b].kind = "null" THEN FALSE
    ELSE LET t == output_sender[b].to
             beyond == Queued(t) - input_capacity[t]
         IN  /\ ~dropped[t]
             /\ \E i \in DOMAIN inbox[t] :
                   i > Len(inbox[t]) - beyond /\ inbox[t][i].from = b

\* A send of box b is in progress: it has items to put on the channel yet, or
\* waits for its sender to be parked no more.
Sending(b) == pending[b] # <<>> \/ Parked(b)

\* box.send(m): the send starts; through the NullSender it is over at once.
\* No more than `limit` sends are made in all.
SendUpTo(b, m, limit) ==
    /\ built[b]
    /\ ~dropped[b]
    /\ ~Sending(b)
    /\ Sends < limit
    /\ sent' = [sent EXCEPT ![b] = Append(@, m)]
    /\ pending' = [pending EXCEPT ![b] = SendItems(output_sender[b], m)]
    /\ UNCHANGED <<output_sender, built, dropped, inbox, received, send_errors,
                   registered, connected, answering, wirings>>
    /\ UNCHANGED <<calls, input_capacity, server_vars, ext_vars>>

Send(b, m) == SendUpTo(b, m, MaxSend)

\* The send in progress puts its next item on the receiver's channel, once its
\* sender is not parked; it fails, and drops what is left, when the receiver is gone.
Deliver(b) ==
    /\ pending[b] # <<>>
    /\ LET t == output_sender[b].to
       IN  IF dropped[t]
           THEN /\ pending' = [pending EXCEPT ![b] = <<>>]
                /\ send_errors' = [send_errors EXCEPT ![b] = @ + 1]
                /\ UNCHANGED <<inbox, answering>>
           ELSE /\ ~Parked(b)
                /\ inbox' = [inbox EXCEPT ![t] =
                                Append(@, [from |-> b, msg |-> Head(pending[b]),
                                           via |-> output_sender[b],
                                           for |-> IF answering[b] \in connected[b]
                                                   THEN answering[b] ELSE 0])]
                /\ pending' = [pending EXCEPT ![b] = Tail(@)]
                /\ answering' = [answering EXCEPT ![b] = IF Len(pending[b]) = 1 THEN 0 ELSE @]
                /\ UNCHANGED send_errors
    /\ UNCHANGED <<output_sender, built, dropped, received, sent, registered, connected,
                   wirings>>
    /\ UNCHANGED <<calls, input_capacity, server_vars, ext_vars>>

\* box.recv(): the next message of the input channel.
Recv(b) ==
    /\ built[b]
    /\ ~dropped[b]
    /\ ~Sending(b)
    /\ Queued(b) > 0
    /\ received' = [received EXCEPT ![b] = @ + 1]
    /\ answering' = [answering EXCEPT ![b] = inbox[b][received[b] + 1].from]
    /\ UNCHANGED <<output_sender, built, dropped, inbox, pending, sent, send_errors,
                   registered, connected, wirings>>
    /\ UNCHANGED <<calls, input_capacity, server_vars, ext_vars>>

\* The built box is dropped, and its input receiver with it.
Drop(b) ==
    /\ built[b]
    /\ ~dropped[b]
    /\ ~Sending(b)
    /\ dropped' = [dropped EXCEPT ![b] = TRUE]
    /\ UNCHANGED <<output_sender, built, inbox, received, pending, sent, send_errors,
                   registered, connected, answering, wirings>>
    /\ UNCHANGED <<calls, input_capacity, server_vars, ext_vars>>

NextSimple ==
    \/ \E b \in Boxes, s \in SimpleSenders : RegisterPeer(b, s)
    \/ \E p \in Boxes, c \in Boxes : SimpleConnectConsumer(p, c)
    \/ \E c \in Boxes, p \in Boxes : SetRequestSender(c, ChanSender(p))
    \/ \E sink \in Boxes, source \in Boxes : AddMappedInput(sink, source)
    \/ \E p \in Boxes, c \in Boxes : AddPeer(p, c)
    \/ \E c \in Boxes, p \in Boxes : SetConnection(c, p)
    \/ \E c \in Boxes, p \in Boxes : WithConnection(c, p)
    \/ \E sink \in Boxes, source \in Boxes : AddInput(sink, source)
    \/ \E source \in Boxes, peer \in Boxes : AddSink(source, peer)
    \/ \E b \in Boxes : Build(b)
    \/ \E b \in Boxes, m \in Msgs : Send(b, m)
    \/ \E b \in Boxes : Deliver(b)
    \/ \E b \in Boxes : Recv(b)
    \/ \E b \in Boxes : Drop(b)

SpecSimple == Init /\ [][NextSimple]_vars

\* ------------------------------------------------------------------ simple boxes: producers of one box

\* The messages the producers send: two that differ are enough to tell an order.
CloneMsgs == {"xy", "z"}

\* box.send(m) of one of several producers, MaxCloneSend sends in all.
CloneSend(b, m) == SendUpTo(b, m, MaxCloneSend)

\* The builders are created with any capacity up to MaxBoxCapacity.
InitClones == \E capacity \in 0..MaxBoxCapacity : InitWith(capacity)

\* Producers get a sender of a builder in the three ways it hands one out:
\* get_sender (add_sink), get_response_sender (connect_consumer of the
\* producer) and the sender connect_consumer returns (add_peer); then the
\* boxes are built and the producers send while the box receives.
NextClones ==
    \/ \E source \in Boxes, peer \in Boxes : AddSink(source, peer)
    \/ \E p \in Boxes, c \in Boxes : SimpleConnectConsumer(p, c)
    \/ \E p \in Boxes, c \in Boxes : AddPeer(p, c)
    \/ \E b \in Boxes : Build(b)
    \/ \E b \in Boxes, m \in CloneMsgs : CloneSend(b, m)
    \/ \E b \in Boxes : Deliver(b)
    \/ \E b \in Boxes : Recv(b)

SpecClones == InitClones /\ [][NextClones]_vars

\* ------------------------------------------------------------------ server actor: assembling

\* config.with_capacity(n)
ConfigWithCapacity(n) ==
    /\ stage = "config"
    /\ server_config' = ServerConfig_with_capacity(server_config, n)
    /\ set_fields' = set_fields \cup {"capacity"}
    /\ UNCHANGED <<stage, actor, bare, returned, signal_senders, build_kind, build_run>>
    /\ UNCHANGED actor_run
    /\ UNCHANGED <<server_vars, simple_vars, signal_vars>>

\* config.with_max_concurrency(n)
ConfigWithMaxConcurrency(n) ==
    /\ stage = "config"
    /\ server_config' = ServerConfig_with_max_concurrency(server_config, n)
    /\ set_fields' = set_fields \cup {"max_concurrency"}
    /\ UNCHANGED <<stage, actor, bare, returned, signal_senders, build_kind, build_run>>
    /\ UNCHANGED actor_run
    /\ UNCHANGED <<server_vars, simple_vars, signal_vars>>

\* ServerActorBuilder::new(server, &config, kind), and next to it a bare
\* ServerMessageBoxBuilder::new(name, capacity).with_max_concurrency(n).
NewActor(kind) ==
    /\ stage = "config"
    /\ stage' = "wiring"
    /\ actor' = ServerActorBuilder_new("server", server_config, kind)
    /\ bare' = [ServerMessageBoxBuilder_new("server", server_config.capacity)
                   EXCEPT !.max_concurrency = with_max_concurrency(server_config.max_concurrency)]
    /\ UNCHANGED <<server_config, set_fields, returned, signal_senders, build_kind, build_run>>
    /\ UNCHANGED actor_run
    /\ UNCHANGED <<server_vars, simple_vars, signal_vars>>

\* actor_builder.connect_consumer(NoConfig, sender of c), and the same call on
\* the bare box builder.
ActorConnectConsumer(c) ==
    /\ stage = "wiring"
    /\ Len(returned) < NConsumers
    /\ LET on_actor == ServerActorBuilder_connect_consumer(actor, ChanSender(c))
           on_box == ServerMessageBoxBuilder_connect_consumer(bare, ChanSender(c))
       IN  /\ actor' = on_actor.builder
           /\ bare' = on_box.builder
           /\ returned' = Append(returned, [on_actor |-> on_actor.request_sender,
                                            on_box |-> on_box.request_sender])
    /\ UNCHANGED <<stage, server_config, set_fields, signal_senders, build_kind, build_run>>
    /\ UNCHANGED actor_run
    /\ UNCHANGED <<server_vars, simple_vars, signal_vars>>

\* actor_builder.get_signal_sender(), and the same call on the bare box builder.
ActorGetSignalSender ==
    /\ stage = "wiring"
    /\ signal_senders' = << ServerActorBuilder_get_signal_sender(actor),
                            ServerMessageBoxBuilder_get_signal_sender(bare) >>
    /\ UNCHANGED <<stage, server_config, set_fields, actor, bare, returned, build_kind,
                   build_run>>
    /\ UNCHANGED actor_run
    /\ UNCHANGED <<server_vars, simple_vars, signal_vars>>

\* The senders registered on the first simple builder next to the server
\* actor: a plain one and a mapping one.
WiredSenders == {get_sender(2), add_mapped_input(3)}

\* A wiring call on the first simple builder, while nothing is being built.
WireSimple(sender) ==
    /\ stage # "building"
    /\ RegisterPeer(1, sender)

\* What the own build of each implementation yields from the builder as it stands.
Product(builder) ==
    CASE builder = "SimpleMessageBox" -> SimpleMessageBoxBuilder_build(1, output_sender[1])
      [] builder = "ServerMessageBox" -> ServerMessageBoxBuilder_build(bare)
      [] builder = "ConcurrentServerMessageBox" -> ServerMessageBoxBuilder_build_concurrent(bare)
      [] builder = "ServerActor" -> ServerActorBuilder_build(actor)
      [] builder = "ConcurrentServerActor" -> ServerActorBuilder_build_concurrent(actor)

\* Both methods are called, each on the builder as it stands.
StartBuild(builder) ==
    /\ stage = "wiring"
    /\ builder = "ServerActor" => actor.kind = "Sequential"
    /\ builder = "ConcurrentServerActor" => actor.kind = "Concurrent"
    /\ stage' = "building"
    /\ build_kind' = builder
    /\ build_run' = [e \in Entries |-> [frames |-> <<e>>, ret |-> NoValue]]
    /\ UNCHANGED <<server_config, set_fields, actor, bare, returned, signal_senders>>
    /\ UNCHANGED actor_run
    /\ UNCHANGED <<server_vars, simple_vars, signal_vars>>

\* The call of entry e goes one step on.
StepBuild(e) ==
    /\ stage = "building"
    /\ build_run[e].frames # <<>>
    /\ Len(BuildStep(build_kind, Product(build_kind), build_run[e]).frames) <= MaxDepth
    /\ build_run' = [build_run EXCEPT ![e] = BuildStep(build_kind, Product(build_kind), @)]
    /\ UNCHANGED <<stage, server_config, set_fields, actor, bare, returned, signal_senders,
                   build_kind>>
    /\ UNCHANGED actor_run
    /\ UNCHANGED <<server_vars, simple_vars, signal_vars>>

\* actor_builder.run(), up to its await: the builder is consumed, the box is
\* built by self.box_builder.build() and the actor made of the server and the box.
ActorRun ==
    /\ stage = "wiring"
    /\ stage' = "running"
    /\ actor_run' = [actor |-> IF actor.kind = "Sequential"
                               THEN ServerActorBuilder_run(actor)
                               ELSE ServerActorBuilder_run_concurrent(actor),
                     ret |-> NoValue]
    /\ UNCHANGED <<server_config, set_fields, actor, bare, returned, signal_senders,
                   build_kind, build_run>>
    /\ UNCHANGED <<server_vars, simple_vars, signal_vars>>

\* actor.run().await is over: run returns the actor's result as it is.
ActorRunReturns(result) ==
    /\ stage = "running"
    /\ actor_run.ret = NoValue
    /\ actor_run' = [actor_run EXCEPT !.ret = Value(result)]
    /\ UNCHANGED <<stage, server_config, set_fields, actor, bare, returned, signal_senders,
                   build_kind, build_run>>
    /\ UNCHANGED <<server_vars, simple_vars, signal_vars>>

NextActor ==
    \/ \E n \in 1..Capacity : ConfigWithCapacity(n)
    \/ \E n \in 0..MaxConc : ConfigWithMaxConcurrency(n)
    \/ \E kind \in {"Sequential", "Concurrent"} : NewActor(kind)
    \/ \E c \in Consumers : ActorConnectConsumer(c)
    \/ ActorGetSignalSender
    \/ \E sender \in WiredSenders : WireSimple(sender)
    \/ \E builder \in Builders : StartBuild(builder)
    \/ \E e \in Entries : StepBuild(e)
    \/ ActorRun
    \/ \E result \in RunResults : ActorRunReturns(result)

SpecActor == Init /\ [][NextActor]_vars

\* ------------------------------------------------------------------ signals

\* The first simple builder is created with any capacity up to MaxBoxCapacity.
InitSignal == \E capacity \in 0..MaxBoxCapacity : InitWith(capacity)

\* The holder of the sender get_signal_sender returned: the runtime.
Runtime == 0

\* The holders of a clone of the sender get_sender returned.
Producers == 1..NProducers

\* The runtime sends request r through the sender get_signal_sender returned.
SendSignal(r) ==
    /\ LET sender == SimpleMessageBoxBuilder_get_signal_sender(1)
       IN  IF sender.channel = "signal"
           THEN /\ ~is_parked(signal_parked, Runtime)
                /\ LET sent_ == channel_send(signal_queue, signal_parked,
                                             signal_capacity[sender.of], Runtime, r)
                   IN  /\ signal_queue' = sent_.queue
                       /\ signal_parked' = sent_.parked
                /\ UNCHANGED <<data_queue, data_parked>>
           ELSE /\ ~is_parked(data_parked, Runtime)
                /\ LET sent_ == channel_send(data_queue, data_parked,
                                             input_capacity[sender.of], Runtime, r)
                   IN  /\ data_queue' = sent_.queue
                       /\ data_parked' = sent_.parked
                /\ UNCHANGED <<signal_queue, signal_parked>>
    /\ UNCHANGED <<signal_capacity, loop_last, signals_seen>>
    /\ UNCHANGED <<server_vars, simple_vars, actor_vars>>

\* Producer p sends message m through its clone of the sender get_sender returned.
SendData(p, m) ==
    /\ ~is_parked(data_parked, p)
    /\ LET sent_ == channel_send(data_queue, data_parked,
                                 input_capacity[get_sender(1).to], p, m)
       IN  /\ data_queue' = sent_.queue
           /\ data_parked' = sent_.parked
    /\ UNCHANGED <<signal_capacity, signal_queue, signal_parked, loop_last, signals_seen>>
    /\ UNCHANGED <<server_vars, simple_vars, actor_vars>>

\* One turn of the box's receive loop.
LoopRecv ==
    /\ recv_choice(signal_queue, data_queue) # "wait"
    /\ IF recv_choice(signal_queue, data_queue) = "signal"
       THEN /\ LET got == channel_recv(signal_queue, signal_parked)
               IN  /\ loop_last' = got.item
                   /\ signal_queue' = got.queue
                   /\ signal_parked' = got.parked
            /\ signals_seen' = 1 - signals_seen
            /\ UNCHANGED <<data_queue, data_parked>>
       ELSE /\ LET got == channel_recv(data_queue, data_parked)
               IN  /\ loop_last' = got.item
                   /\ data_queue' = got.queue
                   /\ data_parked' = got.parked
            /\ UNCHANGED <<signal_queue, signal_parked, signals_seen>>
    /\ UNCHANGED signal_capacity
    /\ UNCHANGED <<server_vars, simple_vars, actor_vars>>

NextSignal ==
    \/ \E r \in RuntimeRequests : SendSignal(r)
    \/ \E p \in Producers, m \in Msgs : SendData(p, m)
    \/ LoopRecv

\* The box's task keeps being scheduled: a turn of its loop that stays possible is taken.
SpecSignal == InitSignal /\ [][NextSignal]_vars /\ WF_vars(LoopRecv)

\* ------------------------------------------------------------------ server box: properties

\* Requests the handler has accepted so far, and responses it has given.
Accepted == SumUpTo(submitted, NConsumers) - Len(request_queue)
Completed == Cardinality(emitted)

\* C1: the i-th connect_consumer call assigns ClientId i-1, whatever other
\* builder calls are interleaved, and the registry holds one sender per call.
C1_ClientIdsInCallOrder ==
    /\ Len(assigned) = Len(supplied)
    /\ \A i \in DOMAIN assigned : assigned[i] = i - 1
    /\ Len(clients) = Len(supplied)

C1_Witness ==
    /\ Len(assigned) = NConsumers
    /\ last_arg # {}
    /\ supplied[1] # 1

\* C2: a response (k, r) the built box sends reaches the response sender given
\* at the connect_consumer call that assigned k, exactly once, and no other
\* consumer's channel holds r.
C2_ResponseOnlyToItsClient ==
    /\ \A e \in emitted :
          /\ e.id + 1 \in DOMAIN supplied
          /\ e.to = supplied[e.id + 1]
          /\ \A c \in Consumers :
                Cardinality({i \in DOMAIN responses[c] : responses[c][i] = e.res})
                    = IF c = supplied[e.id + 1] THEN 1 ELSE 0
    /\ \A c \in Consumers : \A i \in DOMAIN responses[c] :
          \E e \in emitted : e.res = responses[c][i]

C2_Witness ==
    /\ phase = "sequential"
    /\ Len(supplied) >= 2
    /\ supplied[1] # 1
    /\ \E e \in emitted : e.id = 1 /\ responses[e.to] # <<>>
    /\ \E e \in emitted : e.id = 0

\* C3: a request sent through the sender returned by the call that assigned
\* ClientId k sits on the shared queue (and is accepted) as the pair (k, q).
C3_RequestTaggedWithItsClientId ==
    /\ \A i \in DOMAIN request_queue :
          /\ request_queue[i][1] + 1 \in DOMAIN supplied
          /\ supplied[request_queue[i][1] + 1] = request_queue[i][2].by
    /\ \A req \in running :
          /\ req[1] + 1 \in DOMAIN supplied
          /\ supplied[req[1] + 1] = req[2].by
    /\ Accepted + Len(request_queue) = SumUpTo(submitted, NConsumers)
    /\ \A c \in Consumers :
          Cardinality({i \in DOMAIN request_queue : request_queue[i][2].by = c})
              <= submitted[c]

C3_Witness ==
    /\ Len(request_queue) = 2
    /\ request_queue[1][1] = 1
    /\ request_queue[2][1] = 0
    /\ supplied[1] # 1

\* C4: a concurrent box never has more than max_concurrency requests accepted
\* and unanswered; one request more is accepted only once one is answered.
C4_BoundedConcurrency ==
    phase = "concurrent" =>
        /\ Cardinality(running) <= max_concurrency
        /\ Accepted - Completed <= max_concurrency
        /\ Accepted >= max_concurrency + 1 => Completed >= 1

C4_Witness ==
    /\ phase = "concurrent"
    /\ max_concurrency = 2
    /\ Cardinality(running) = 2
    /\ request_queue # <<>>
    /\ Completed = 0

\* C5: under the concurrent strategy every response lands on the channel of the
\* consumer that submitted the request it answers, whatever the completion order.
C5_FidelityUnderAnyCompletionOrder ==
    phase = "concurrent" =>
        /\ \A c \in Consumers : \A i \in DOMAIN responses[c] :
              responses[c][i].answer_to.by = c
        /\ \A e \in emitted : responses[e.res.answer_to.by] # <<>>

C5_Witness ==
    /\ phase = "concurrent"
    /\ \E c \in Consumers :
          /\ Len(responses[c]) = 2
          /\ responses[c][1].answer_to.n = 2
          /\ \E d \in Consumers \ {c} : responses[d] # <<>>

\* C6: with_max_concurrency(n) is always accepted and stores max(1, n): the
\* builder and the concurrent box built from it hold a bound of at least 1, and
\* the argument 0 leaves the builder as the argument 1 does.
C6_ConcurrencyClampedToOne ==
    /\ max_concurrency >= 1
    /\ phase = "concurrent" => box.max_concurrency = max_concurrency
    /\ \A n \in last_arg :
          /\ max_concurrency >= n
          /\ max_concurrency \in {1, n}
          /\ n \in {0, 1} => max_concurrency = 1
    /\ phase = "builder" => \A n \in 0..MaxConc : ENABLED WithMaxConcurrency(n)

C6_Witness ==
    /\ last_arg = {0}
    /\ phase = "concurrent"
    /\ Cardinality(running) = 1
    /\ request_queue # <<>>

\* Every pair that went through the shared request queue, oldest first.
Enqueued == dequeued \o request_queue

\* The pairs of Enqueued tagged with ClientId k, and those sent by consumer c.
TaggedWith(k) == LET Tagged(pair) == pair[1] = k IN SelectSeq(Enqueued, Tagged)

SentBy(c) == LET Sender(pair) == pair[2].by = c IN SelectSeq(Enqueued, Sender)

\* C13: the requests a client submitted leave the shared queue in the order it
\* submitted them, none lost, whatever other clients submit in between; the
\* pairs of one ClientId are one client's; and the queue is FIFO: a pair is
\* taken at its head, a pair is added at its end.
C13_ClientOrderKept ==
    /\ \A c \in Consumers :
          /\ Len(SentBy(c)) = submitted[c]
          /\ \A i \in DOMAIN SentBy(c) : SentBy(c)[i][2].n = i
    /\ \A k \in 0..NConsumers :
          \A i \in DOMAIN TaggedWith(k) : TaggedWith(k)[i][2].n = i

C13_QueueIsFifo ==
    [][request_queue' # request_queue =>
          \/ /\ request_queue # <<>>
             /\ request_queue' = Tail(request_queue)
             /\ dequeued' = Append(dequeued, Head(request_queue))
          \/ /\ Len(request_queue') = Len(request_queue) + 1
             /\ SubSeq(request_queue', 1, Len(request_queue)) = request_queue
             /\ dequeued' = dequeued]_vars

C13_SubmissionOrderKept == []C13_ClientOrderKept /\ C13_QueueIsFifo

C13_Witness ==
    /\ Len(dequeued) = 4
    /\ dequeued[1][2].by # dequeued[2][2].by
    /\ dequeued[2][2].by = dequeued[4][2].by
    /\ dequeued[2][2].n = 1
    /\ dequeued[4][2].n = 2

\* ------------------------------------------------------------------ simple boxes: properties

Last(seq) == seq[Len(seq)]

\* The messages box `from` has put on the input channel of box `to`, in order.
RECURSIVE FromTo(_, _, _)
FromTo(from, to, n) ==
    IF n = 0 THEN <<>>
    ELSE IF inbox[to][n].from = from
         THEN Append(FromTo(from, to, n - 1), inbox[to][n].msg)
         ELSE FromTo(from, to, n - 1)

IsPrefix(p, q) == Len(p) <= Len(q) /\ SubSeq(q, 1, Len(p)) = p

\* mapper(n1) ++ ... ++ mapper(nj)
RECURSIVE Expand(_)
Expand(ms) == IF ms = <<>> THEN <<>> ELSE chars(Head(ms)) \o Expand(Tail(ms))

\* C7: a box built from a builder on which no wiring call was ever made
\* completes every send at once, without error, and no input channel (its own
\* included) ever holds one of its messages.
C7_UnwiredOutputDiscards ==
    \A b \in Boxes :
        registered[b] = <<>> =>
            /\ pending[b] = <<>>
            /\ send_errors[b] = 0
            /\ \A t \in Boxes : FromTo(b, t, Len(inbox[t])) = <<>>

C7_Witness ==
    \E b \in Boxes, t \in Boxes :
        /\ registered[b] = <<>>
        /\ sent[b] = <<"xy">>
        /\ t # b
        /\ send_errors[t] = 1

\* C8: a simple builder holds one output route, the sender of its last
\* register_peer, connect_consumer or set_request_sender call; whatever the
\* built box sends travels through that sender, none through an earlier one.
C8_LastRegistrationWins ==
    /\ \A b \in Boxes :
          output_sender[b] = IF registered[b] = <<>> THEN NullSender ELSE Last(registered[b])
    /\ \A t \in Boxes : \A i \in DOMAIN inbox[t] :
          /\ registered[inbox[t][i].from] # <<>>
          /\ inbox[t][i].via = Last(registered[inbox[t][i].from])
          /\ inbox[t][i].via.to = t

C8_Witness ==
    \E b \in Boxes :
        /\ Len(registered[b]) = 2
        /\ registered[b][1].to # registered[b][2].to
        /\ connected[b] # {}
        /\ FromTo(b, registered[b][2].to, Len(inbox[registered[b][2].to])) # <<>>
        /\ FromTo(b, registered[b][1].to, Len(inbox[registered[b][1].to])) = <<>>

\* The wiring calls made on provider p were connect_consumer calls, one per
\* consumer, none by p itself.
OnlyConnectConsumerCalls(p) ==
    /\ Len(registered[p]) = Cardinality(connected[p])
    /\ p \notin connected[p]

\* C9 (as claimed): whatever provider connect_consumer was called on, once per
\* consumer, each response it emits for a consumer arrives on the response
\* sender that consumer gave: on its channel for a simple box provider, and on
\* the channel of the request's sender for a server box.
C9_EveryResponseReachesItsConsumer ==
    /\ \A t \in Boxes : \A i \in DOMAIN inbox[t] :
          (/\ inbox[t][i].for # 0
           /\ OnlyConnectConsumerCalls(inbox[t][i].from)) =>
              /\ inbox[t][i].via = get_response_sender(inbox[t][i].for)
              /\ t = inbox[t][i].for
    /\ \A c \in Consumers : \A i \in DOMAIN responses[c] :
          responses[c][i].answer_to.by = c

\* C10: once a source is wired by sink.add_mapped_input(source, mapper), what
\* it has put on the sink's channel, followed by what its send in progress has
\* still to put there, is mapper(n1) ++ ... ++ mapper(nj) for the messages
\* n1..nj it sent (a prefix of it once a send failed because the sink is
\* gone), and no other channel holds anything of it.
C10_MappedInputIsConcatenation ==
    \A s \in Boxes, t \in Boxes :
        (built[s] /\ output_sender[s] = add_mapped_input(t)) =>
            /\ IsPrefix(FromTo(s, t, Len(inbox[t])), Expand(sent[s]))
            /\ send_errors[s] = 0 =>
                  FromTo(s, t, Len(inbox[t])) \o pending[s] = Expand(sent[s])
            /\ \A u \in Boxes \ {t} : FromTo(s, u, Len(inbox[u])) = <<>>

C10_Witness ==
    \E s \in Boxes, t \in Boxes :
        /\ s # t
        /\ output_sender[s] = add_mapped_input(t)
        /\ sent[s] = <<"", "xy">>
        /\ pending[s] = <<>>
        /\ FromTo(s, t, Len(inbox[t])) = <<"x", "y">>
        /\ received[t] = 2

\* What box `from` has put on the input channel of box `to`, all of it.
Delivered(from, to) == FromTo(from, to, Len(inbox[to]))

\* Whatever built box s sent has gone, once and in order, to the input channel
\* of t or is still held by its suspended send; no other channel has any of it.
DeliversAllTo(s, t) ==
    /\ IsPrefix(Delivered(s, t), sent[s])
    /\ send_errors[s] = 0 => Delivered(s, t) \o pending[s] = sent[s]
    /\ \A u \in Boxes \ {t} : Delivered(s, u) = <<>>

\* C11: once B.add_input(A) has wired A to B and A is built, each message A
\* sends is put on B's input channel exactly once, neither lost nor
\* duplicated, through the sender add_input registered; B receives from its
\* channel only, and no third box receives anything of it.
C11_AddInputDeliversExactlyOnce ==
    \A a \in Boxes, b \in Boxes :
        (a # b /\ built[a] /\ output_sender[a] = add_input(b, a)) =>
            /\ DeliversAllTo(a, b)
            /\ received[b] <= Len(inbox[b])
            /\ \A i \in DOMAIN inbox[b] :
                  inbox[b][i].from = a => inbox[b][i].via = add_input(b, a)

C11_Witness ==
    \E a \in Boxes, b \in Boxes, u \in Boxes :
        /\ a # b /\ u # a /\ u # b
        /\ output_sender[a] = add_input(b, a)
        /\ sent[a] = <<"xy">>
        /\ Delivered(a, b) = <<"xy">>
        /\ received[b] = 1
        /\ registered[u] # <<>>
        /\ built[u]
        /\ inbox[u] = <<>>

\* The link add_peer makes: the consumer's output route is the provider's input
\* sender, the provider's output route is the consumer's response sender.
Linked(provider, consumer) ==
    /\ output_sender[consumer] = get_sender(provider)
    /\ output_sender[provider] = get_response_sender(consumer)

\* The calls of an add_peer on `provider` for `consumer`, in order, each given
\* what the one before returned.
CallsInOrder(trace, provider, consumer) ==
    /\ Len(trace) = 4
    /\ trace[1].call = "get_config" /\ trace[1].on = consumer
    /\ trace[2].call = "get_response_sender" /\ trace[2].on = consumer
    /\ trace[3].call = "connect_consumer" /\ trace[3].on = provider
    /\ trace[3].arg = trace[2].ret
    /\ trace[4].call = "set_request_sender" /\ trace[4].on = consumer
    /\ trace[4].arg = trace[3].ret

C12_LinkedTraffic ==
    \A p \in Boxes, c \in Boxes :
        (p # c /\ built[p] /\ built[c] /\ Linked(p, c)) =>
            /\ DeliversAllTo(c, p)
            /\ DeliversAllTo(p, c)

C12_LinkStep ==
    [][\A p \in Boxes, c \in Boxes :
          (AddPeer(p, c) \/ SetConnection(c, p) \/ WithConnection(c, p)) =>
              /\ CallsInOrder(calls', p, c)
              /\ output_sender'[c] = get_sender(p)
              /\ output_sender'[p] = get_response_sender(c)
              /\ \A b \in Boxes \ {p, c} : output_sender'[b] = output_sender[b]]_vars

\* C12: provider.add_peer(consumer), and consumer.set_connection(provider) and
\* consumer.with_connection(provider) alike, calls get_config and
\* get_response_sender on the consumer, connect_consumer on the provider and
\* set_request_sender on the consumer with the sender that returned, in this
\* order; as long as that link stands when both are built, what the consumer
\* sends arrives on the provider's input channel and what the provider sends
\* arrives on the consumer's own.
C12_AddPeerLinksBothWays == []C12_LinkedTraffic /\ C12_LinkStep

C12_Witness ==
    \E p \in Boxes, c \in Boxes :
        /\ p # c
        /\ Linked(p, c)
        /\ CallsInOrder(calls, p, c)
        /\ sent[c] = <<"z">>
        /\ Delivered(c, p) = <<"z">>
        /\ received[p] = 1
        /\ sent[p] = <<"xy">>
        /\ Delivered(p, c) = <<"xy">>

\* C15, as stated: the input channel of a box built with capacity C never holds
\* more than C messages; a send that finds it full is suspended and keeps its
\* message until a receive frees a slot, then goes on; a receive on an empty
\* channel is suspended; and nothing sent is lost on the way.
C15_InputQueueBounded ==
    /\ \A t \in Boxes : Queued(t) \in 0..BoxCapacity
    /\ \A t \in Boxes : Queued(t) = 0 => ~ENABLED Recv(t)
    /\ \A b \in Boxes :
          (pending[b] # <<>> /\ ~dropped[output_sender[b].to]) =>
              (ENABLED Deliver(b) <=> Queued(output_sender[b].to) < BoxCapacity)
    /\ \A b \in Boxes :
          (built[b] /\ output_sender[b].kind \in {"chan", "adapt"}) =>
              DeliversAllTo(b, output_sender[b].to)

\* The built boxes whose sender feeds the input channel of t.
SendersInto(t) ==
    {b \in Boxes : built[b] /\ output_sender[b].kind # "null" /\ output_sender[b].to = t}

C15_BoundedBySenders ==
    /\ \A t \in Boxes :
          /\ Queued(t) >= 0
          /\ Queued(t) <= BoxCapacity + Cardinality(SendersInto(t))
          /\ Queued(t) = 0 => ~ENABLED Recv(t)
          /\ ~dropped[t] =>
                Cardinality({b \in SendersInto(t) : Parked(b)}) = Max(0, Queued(t) - BoxCapacity)
    /\ \A b \in Boxes :
          /\ Parked(b) => /\ ~ENABLED Deliver(b)
                          /\ \A m \in Msgs : ~ENABLED Send(b, m)
          /\ (pending[b] # <<>> /\ ~dropped[output_sender[b].to]) =>
                (ENABLED Deliver(b) <=> ~Parked(b))
          /\ (built[b] /\ output_sender[b].kind \in {"chan", "adapt"}) =>
                DeliversAllTo(b, output_sender[b].to)

C15_SuspendedWhenFull ==
    [][\A b \in Boxes :
          (Deliver(b) /\ ~dropped[output_sender[b].to]) =>
              /\ Queued(output_sender[b].to)' = Queued(output_sender[b].to) + 1
              /\ Parked(b)' <=> Queued(output_sender[b].to) >= BoxCapacity]_vars

\* C15, amended: the input channel of a box built with capacity C never holds
\* more than C messages plus one for each sender feeding it. A sender that is
\* not suspended puts its message on the channel at once; when the channel held
\* C messages or more already, the send is suspended until a receive frees
\* its slot, and the sender sends nothing more until then. A receive on an
\* empty channel is suspended, and nothing sent is lost on the way.
C15_InputQueueBoundedBySenders == []C15_BoundedBySenders /\ C15_SuspendedWhenFull

C15_Witness ==
    \E b \in Boxes, c \in Boxes, t \in Boxes :
        /\ b # c
        /\ {b, c} \subseteq SendersInto(t)
        /\ ~dropped[t]
        /\ Queued(t) = BoxCapacity + 1
        /\ ~Parked(b)
        /\ Parked(c)
        /\ sent[b] # <<>>

C20_RegistersOnce ==
    [][\A source \in Boxes, sink \in Boxes :
          (AddSink(source, sink) \/ AddInput(sink, source)) =>
              /\ registered'[source] = Append(registered[source], output_sender'[source])
              /\ output_sender'[source].to = sink
              /\ output_sender'[source].kind \in {"chan", "adapt"}
              /\ \A b \in Boxes \ {source} :
                    /\ registered'[b] = registered[b]
                    /\ output_sender'[b] = output_sender[b]]_vars

C20_SameDeliveries ==
    \A s \in Boxes, t \in Boxes :
        /\ \A m \in Msgs : SendItems(add_sink(s, t), m) = SendItems(add_input(t, s), m)
        /\ (s # t /\ built[s] /\ output_sender[s] \in {add_sink(s, t), add_input(t, s)}) =>
              DeliversAllTo(s, t)

\* C20: source.add_sink(sink) and sink.add_input(source) each make one
\* register_peer call on the source, with a sender into the sink's input
\* channel, and touch no other builder; a box built after either delivers what
\* it sends to the sink, the same messages in the same order.
C20_PushAndPullWiringAgree == []C20_SameDeliveries /\ C20_RegistersOnce

C20_Witness ==
    \E s \in Boxes, t \in Boxes, u \in Boxes :
        /\ s # t /\ u # t /\ u # s
        /\ output_sender[s] = add_sink(s, t)
        /\ output_sender[u] = add_input(t, u)
        /\ sent[s] = <<"xy">>
        /\ sent[u] = <<"z">>
        /\ FromTo(s, t, Len(inbox[t])) = <<"xy">>
        /\ FromTo(u, t, Len(inbox[t])) = <<"z">>

\* ------------------------------------------------------------------ server actor: properties

\* C17: on every implementation of Builder and in every wiring state, a call
\* of try_build goes through the implementation's own build and returns
\* Ok(product), a call of build returns the product, neither stacks a third
\* frame, stops half-way, fails or aborts, and both return the same product.
C17_BuildNeverFails ==
    /\ \A e \in Entries :
          /\ Len(build_run[e].frames) <= 2
          /\ build_run[e].ret.tag \in {"none", "value", "Ok"}
          /\ build_run[e].frames # <<>> => ENABLED StepBuild(e)
          /\ (stage = "building" /\ build_run[e].frames = <<>>) =>
                build_run[e].ret.tag = (IF e = "try_build" THEN "Ok" ELSE "value")
    /\ (stage = "building" /\ \A e \in Entries : build_run[e].frames = <<>>) =>
          build_run["try_build"].ret.value = build_run["build"].ret.value

C17_Witness ==
    /\ build_kind = "ConcurrentServerActor"
    /\ \A e \in Entries : build_run[e].frames = <<>>
    /\ build_run["try_build"].ret.tag = "Ok"
    /\ Len(build_run["build"].ret.value.messages.clients.sender) = 2
    /\ output_sender[1] # NullSender

\* C18: after any connect_consumer and get_signal_sender calls, the
\* ServerActorBuilder's internal box builder is in the state of a bare
\* ServerMessageBoxBuilder given the same calls; each call returned the sender
\* the bare builder returned, keyed 0, 1, ... in call order and feeding the
\* internal box builder's request queue (its signal queue for get_signal_sender).
C18_ActorWiringAsBare ==
    /\ stage # "config" => actor.box_builder = bare
    /\ Len(actor.box_builder.clients) = Len(returned)
    /\ \A i \in DOMAIN returned :
          /\ returned[i].on_actor = returned[i].on_box
          /\ returned[i].on_actor.sender = KeyedSender(i - 1)
          /\ returned[i].on_actor.queue = actor.box_builder.request_queue
    /\ signal_senders # <<>> =>
          /\ signal_senders[1] = signal_senders[2]
          /\ signal_senders[1].queue = actor.box_builder.signal_queue

C18_Witness ==
    /\ Len(returned) = 2
    /\ signal_senders # <<>>
    /\ actor.kind = "Concurrent"
    /\ actor.box_builder.clients = <<ChanSender(2), ChanSender(1)>>

C19_Config ==
    /\ "capacity" \notin set_fields => server_config.capacity = 16
    /\ "max_concurrency" \notin set_fields => server_config.max_concurrency = 4
    /\ actor.kind # "none" =>
          /\ actor.box_builder.request_queue.capacity = server_config.capacity
          /\ actor.box_builder.max_concurrency = Max(1, server_config.max_concurrency)
          /\ server_config.max_concurrency = 0 => actor.box_builder.max_concurrency = 1
    /\ (build_kind = "ConcurrentServerActor" /\ build_run["build"].ret.tag = "value") =>
          build_run["build"].ret.value.messages.max_concurrency
              = Max(1, server_config.max_concurrency)
    /\ (stage = "running" /\ actor.kind = "Concurrent") =>
          actor_run.actor.messages.max_concurrency = Max(1, server_config.max_concurrency)

C19_Setters ==
    [][/\ \A n \in 1..Capacity : ConfigWithCapacity(n) =>
              /\ server_config'.capacity = n
              /\ server_config'.max_concurrency = server_config.max_concurrency
       /\ \A n \in 0..MaxConc : ConfigWithMaxConcurrency(n) =>
              /\ server_config'.max_concurrency = n
              /\ server_config'.capacity = server_config.capacity]_vars

\* C19: ServerConfig::new() holds capacity 16 and max_concurrency 4;
\* with_capacity sets the capacity and nothing else, with_max_concurrency the
\* max_concurrency (as given) and nothing else; a ServerActorBuilder made from
\* a config has a request queue of the config's capacity and the bound
\* max(1, config.max_concurrency), 1 when the config says 0, and so has the
\* actor its build or its run makes.
C19_ServerConfigDefaultsAndUse == []C19_Config /\ C19_Setters

C19_Witness ==
    /\ set_fields = {"max_concurrency"}
    /\ server_config = [capacity |-> 16, max_concurrency |-> 0]
    /\ build_kind = "ConcurrentServerActor"
    /\ build_run["build"].ret.tag = "value"
    /\ build_run["build"].ret.value.messages.max_concurrency = 1

\* ------------------------------------------------------------------ signals: properties

C16_SignalQueueSeparate ==
    /\ \A b \in Boxes : signal_capacity[b] = 4
    /\ Len(signal_queue) - Len(signal_parked) <= 4
    /\ Len(signal_queue) <= 4 => signal_parked = <<>>
    /\ Len(signal_parked) <= 1
    /\ Len(data_queue) - Len(data_parked) <= input_capacity[1]
    /\ \A i \in DOMAIN signal_queue : signal_queue[i] \in RuntimeRequests
    /\ \A i \in DOMAIN data_queue : data_queue[i] \in Msgs
    /\ \A i \in DOMAIN signal_parked : signal_parked[i] = Runtime
    /\ \A i \in DOMAIN data_parked : data_parked[i] \in Producers
    /\ ~is_parked(signal_parked, Runtime) => ENABLED SendSignal("Shutdown")

C16_NoStarvation ==
    \A seen \in {0, 1} :
        (signal_queue # <<>> /\ signals_seen = seen) ~> (signals_seen # seen)

\* C16: a box has a signal channel of its own, made with capacity 4 whatever
\* the capacity C of its input channel: runtime requests go there and only
\* there, messages never; the sends of up to 4 requests awaiting receipt are
\* over and only a further one is suspended, the input channel being full or
\* not. A runtime request waiting there is received by the box's loop after
\* finitely many turns, however long messages keep arriving.
C16_SignalsSeparateAndNotStarved == []C16_SignalQueueSeparate /\ C16_NoStarvation

C16_Witness ==
    /\ Len(signal_queue) = 5
    /\ is_parked(signal_parked, Runtime)
    /\ input_capacity[1] = 2
    /\ Len(data_queue) = 4
    /\ Len(data_parked) = 2
    /\ loop_last \in Msgs
    /\ signals_seen = 1

\* ------------------------------------------------------------------ producers of one box: properties

\* The senders builder t hands out: by get_sender, by get_response_sender and
\* as the return value of connect_consumer.
SendersOf(t) ==
    {get_sender(t), get_response_sender(t),
     simple_connect_consumer(t, output_sender[t], NullSender).request_sender}

\* The built boxes that send through a sender builder t handed out.
ProducersOf(t) == {s \in Boxes : built[s] /\ output_sender[s] \in SendersOf(t)}

\* What box t has received of the messages of box `from`, in the order received.
ReceivedFrom(from, t) == FromTo(from, t, received[t])

\* C21: the senders get_sender, get_response_sender and connect_consumer of
\* one builder return all feed that builder's input channel: whatever the
\* producers holding them send, at the same time or not, is put on that
\* channel once and on no other, each producer's messages in the order it
\* sent them, and the built box receives them from there, each once, those of
\* one producer in that producer's send order.
C21_ClonesFeedOneQueue ==
    \A t \in Boxes :
        /\ \A sender \in SendersOf(t) : sender.kind = "chan" /\ sender.to = t
        /\ \A s \in ProducersOf(t) :
              /\ DeliversAllTo(s, t)
              /\ IsPrefix(ReceivedFrom(s, t), Delivered(s, t))
        /\ received[t] <= Len(inbox[t])
        /\ (\A i \in DOMAIN inbox[t] : inbox[t][i].from \in ProducersOf(t)) =>
              Len(inbox[t]) + SumLen([s \in Boxes |-> IF s \in ProducersOf(t)
                                                     THEN pending[s] ELSE <<>>], NBoxes)
                  = SumLen([s \in Boxes |-> IF s \in ProducersOf(t) THEN sent[s] ELSE <<>>],
                           NBoxes)

C21_Witness ==
    \E s \in Boxes, u \in Boxes, t \in Boxes :
        /\ s # u /\ s # t /\ u # t
        /\ registered[s] = <<get_sender(t)>>
        /\ connected[u] = {t}
        /\ registered[u] = <<get_response_sender(t)>>
        /\ {s, u} \subseteq ProducersOf(t)
        /\ sent[s] = <<"xy", "z">>
        /\ sent[u] = <<"z">>
        /\ Len(inbox[t]) = 3
        /\ [i \in 1..3 |-> inbox[t][i].from] = <<s, u, s>>
        /\ received[t] = 3
        /\ ReceivedFrom(s, t) = <<"xy", "z">>
        /\ ReceivedFrom(u, t) = <<"z">>

====
